---- MODULE Spec2Model ----
(***************************************************************************)
(* A model of slack_autoarchive.py: the ChannelReaper batch job.           *)
(*                                                                         *)
(* Three specifications share the same HTTP client step:                   *)
(*   Spec        a run of ChannelReaper.main                               *)
(*   SpecDisuse  one evaluation of ChannelReaper.is_channel_disused        *)
(*   SpecHttp    one call of ChannelReaper.slack_api_http                  *)
(*                                                                         *)
(* Text values (names, topics, purposes, keywords) are sequences of        *)
(* one-character strings.  Points in time are integers: a POSIX timestamp  *)
(* counts seconds since the epoch, a naive datetime counts seconds since   *)
(* the naive 1970-01-01 00:00:00, and datetime.fromtimestamp shifts a      *)
(* timestamp by the local UTC offset.                                      *)
(***************************************************************************)
EXTENDS Integers, Sequences, FiniteSets, TLC

VARIABLES
    entry,              \* which function is the top of the stack
    settings,           \* self.settings
    utc_offset,         \* the local timezone of the process
    whitelist_file,     \* whitelist.txt: whether it is a file, and its lines
    pc,                 \* position of the run
    channels,           \* the list get_all_channels returned
    idx,                \* index of the loop's current channel
    archived_channels,  \* main's archived_channels
    evaluated,          \* per evaluated channel: what the two predicates returned
    last_eval,          \* the latest is_channel_disused evaluation
    plan,               \* what archive_channel still has to call
    call,               \* arguments of the innermost slack_api_http invocation
    call_trace,         \* the attempts of the current slack_api_http call
    last_response,      \* the response the latest attempt received
    result,             \* what the latest slack_api_http call returned
    log,                \* every request put on the network, in order
    rate_limited,       \* how many 429 responses the platform has given
    audit,              \* lines appended to ./audit.log
    report,             \* the report file: whether written, and its lines
    exit_code           \* the process's exit code, -1 while it runs

vars == <<entry, settings, utc_offset, whitelist_file, pc, channels, idx,
          archived_channels, evaluated, last_eval, plan, call, call_trace,
          last_response, result, log, rate_limited, audit, report,
          exit_code>>

----------------------------------------------------------------------------
(* Bounds of the model *)

\* Largest timestamp (channel creation, message ts, cutoff).
MaxTs == 2

\* Largest member count and largest min_members setting.
MaxMembers == 1

\* Longest messages list of a history response.
MaxMsgs == 2

\* The local UTC offset is 0 or this far either side of UTC.
MaxUtcOffset == 1

\* Largest Retry-After a 429 carries.
MaxRetryAfter == 1

\* Longest channel list conversations.list returns.
MaxChannels == 2

\* 429 responses the server gives during one run of main / is_channel_disused.
MaxRateLimited == 1

\* Nested slack_api_http invocations the interpreter's stack holds: the
\* retry at line 90 is a recursive call, and the invocation at this depth
\* ends in RecursionError (scaled down from the interpreter's limit).
RecursionLimit == 3

----------------------------------------------------------------------------
(* Values *)

\* requests.codes.ok and requests.codes.too_many_requests
StatusOk == 200
StatusTooManyRequests == 429

\* datetime.utcfromtimestamp(0)
Epoch == 0

\* datetime.fromtimestamp(float(ts)): a naive datetime in local time
FromTimestamp(ts) == ts + utc_offset

\* bool(datetime): a datetime object is always true
DatetimeTruthy(dt) == TRUE

----------------------------------------------------------------------------
(* Text *)

\* Python's `sub in s` for str
Contains(sub, s) ==
    \E i \in 0..(Len(s) - Len(sub)) : SubSeq(s, i + 1, i + Len(sub)) = sub

RECURSIVE StripChars(_, _)
\* Python's s.strip(chars): drops leading and trailing characters of `chars`
StripChars(s, chars) ==
    IF s = <<>> THEN s
    ELSE IF Head(s) \in chars THEN StripChars(Tail(s), chars)
    ELSE IF s[Len(s)] \in chars THEN StripChars(SubSeq(s, 1, Len(s) - 1), chars)
    ELSE s

Whitespace == {" ", "\n", "\t"}

\* map(lambda x: x.strip(), keywords)
StripLines(lines) ==
    [i \in 1..Len(lines) |-> StripChars(lines[i], Whitespace)]

----------------------------------------------------------------------------
(* Settings and files *)

BotToken == "bot_slack_token"
UserToken == "slack_token"

\* The settings get_channel_reaper_settings() may supply.
Settings ==
    [dry_run : BOOLEAN,
     admin_channel : {"", "C2"},
     min_members : 0..MaxMembers,
     too_old_datetime : 1..MaxTs,
     whitelist_keywords : {<<>>, <<"f", "a", "q">>},
     skip_subtypes : {{"channel_join", "channel_leave"}},
     skip_channel_str : {<<"%">>},
     days_inactive : {60}]

\* The settings the runs of main are checked with: the cutoff at 1, the
\* member threshold off (0) or 1.
MainSettings ==
    {s \in Settings : s.too_old_datetime = 1 /\ s.min_members <= 1}

\* whitelist.txt: not a file, or one line "#faq\n"
WhitelistFiles ==
    {[exists |-> FALSE, lines |-> <<>>],
     [exists |-> TRUE, lines |-> << <<"#", "f", "a", "q", "\n">> >>]}

\* get_whitelist_keywords: the stripped lines of whitelist.txt; with a
\* nonempty whitelist_keywords setting, `keywords + list` adds a list to a
\* map object and raises TypeError.
get_whitelist_keywords(s, file) ==
    LET lines == IF file.exists THEN file.lines ELSE <<>>
        keywords == StripLines(lines)
    IN  [raised |-> s.whitelist_keywords # <<>>, keywords |-> keywords]

----------------------------------------------------------------------------
(* Channels *)

Channel(id, name, created, num_members, topic, purpose) ==
    [id |-> id, name |-> name, created |-> created,
     num_members |-> num_members, topic |-> topic, purpose |-> purpose]

\* The workspace main runs against: a plain channel, a channel whose
\* purpose carries the exemption marker, a channel named in whitelist.txt.
Workspace ==
    {Channel("C1", <<"d", "e", "v">>, 1, 0, <<>>, <<>>),
     Channel("C2", <<"o", "p", "s">>, 1, 0, <<>>, <<"%", "k">>),
     Channel("C3", <<"f", "a", "q", "s">>, 2, 1, <<"h", "i">>, <<>>)}

\* The channels is_channel_disused is evaluated on by itself.
AnyChannels ==
    {Channel("C1", <<"d", "e", "v">>, c, n, <<>>, <<>>) :
        c \in 1..MaxTs, n \in 0..MaxMembers}

RECURSIVE Listings(_)
\* Channel lists of exactly n distinct channels of the workspace
Listings(n) ==
    IF n = 0 THEN {<<>>}
    ELSE {Append(l, c) : l \in Listings(n - 1), c \in Workspace} \ 
         {l \in {Append(l, c) : l \in Listings(n - 1), c \in Workspace} :
            \E i \in 1..(n - 1) : l[i] = l[n]}

ChannelLists == UNION {Listings(n) : n \in 0..MaxChannels}

\* is_channel_whitelisted
is_channel_whitelisted(s, channel, white_listed_channels) ==
    IF Contains(s.skip_channel_str, channel.purpose)
       \/ Contains(s.skip_channel_str, channel.topic)
    THEN TRUE
    ELSE \E i \in 1..Len(white_listed_channels) :
            Contains(StripChars(white_listed_channels[i], {"#"}), channel.name)

----------------------------------------------------------------------------
(* Responses of the platform *)

Message(ts, subtype) == [ts |-> ts, subtype |-> subtype]

\* A message's subtype: none, one the settings skip, one they do not.
Subtypes == {"", "channel_join", "bot_message"}

Messages == {Message(ts, st) : ts \in 1..MaxTs, st \in Subtypes}

\* The histories the runs of main are checked with: no message, or one.
MainHistories ==
    {<<>>} \cup {<<Message(ts, st)>> : ts \in {1, 2}, st \in Subtypes}

RECURSIVE MessageLists(_)
MessageLists(n) ==
    IF n = 0 THEN {<<>>}
    ELSE MessageLists(n - 1)
         \cup {Append(l, m) : l \in MessageLists(n - 1), m \in Messages}

Response(status, json_valid, error, ok, retry_after) ==
    [status |-> status, json_valid |-> json_valid, error |-> error, ok |-> ok,
     retry_after |-> retry_after,
     channels |-> <<>>, has_messages |-> FALSE, messages |-> <<>>]

\* HTTP 200, {"ok": true, ...}
OkResponse == Response(StatusOk, TRUE, "", "true", -1)

\* The bodies the platform answers a successful call of an endpoint with.
OkResponses(ep, who) ==
    CASE ep = "conversations.list" ->
            {[OkResponse EXCEPT !.channels = l] : l \in ChannelLists}
      [] ep = "conversations.history" ->
            {OkResponse}
            \cup {[OkResponse EXCEPT !.has_messages = TRUE, !.messages = ms] :
                    ms \in IF who = "main" THEN MainHistories
                          ELSE MessageLists(MaxMsgs)}
      [] OTHER -> {OkResponse}

\* A 429 with its Retry-After header.
RateLimited == {Response(StatusTooManyRequests, TRUE, "", "false", d) :
                    d \in 0..MaxRetryAfter}

\* Responses that end a call with no result: an API error, a server error.
NoResultResponses ==
    {Response(StatusOk, TRUE, "channel_not_found", "false", -1),
     Response(500, FALSE, "", "absent", -1)}

\* Responses that end the run: not_authed (ok false or, oddly, true), a body
\* that is not JSON, a body with no "ok", a 429 with no Retry-After, and
\* status 0 for a request that raised in transport.
FatalResponses ==
    {Response(StatusOk, TRUE, "not_authed", "false", -1),
     Response(StatusOk, TRUE, "not_authed", "true", -1),
     Response(StatusOk, FALSE, "", "absent", -1),
     Response(StatusOk, TRUE, "", "absent", -1),
     Response(StatusTooManyRequests, TRUE, "", "false", -1),
     Response(0, FALSE, "", "absent", -1)}

Responses(ep, who) ==
    OkResponses(ep, who) \cup RateLimited \cup NoResultResponses
        \cup FatalResponses

----------------------------------------------------------------------------
(* slack_api_http *)

NewCall(api_endpoint, payload, method, as_bot) ==
    [api_endpoint |-> api_endpoint, payload |-> payload, method |-> method,
     retry_delay |-> 0, as_bot |-> as_bot, depth |-> 0]

\* The token the Authorization header carries.
Token(c) == IF c.as_bot THEN BotToken ELSE UserToken

\* What an invocation puts on the network.
Request(c) ==
    [api_endpoint |-> c.api_endpoint, payload |-> c.payload,
     method |-> c.method, token |-> Token(c)]

\* time.sleep(retry_delay) when retry_delay > 0
Slept(c) == IF c.retry_delay > 0 THEN c.retry_delay ELSE 0

\* The nested invocation of line 90:
\* slack_api_http(api_endpoint, payload, method, retry_timeout); as_bot is
\* not passed on and takes its default.
RetryCall(c, r) ==
    [c EXCEPT !.retry_delay = r.retry_after, !.as_bot = FALSE,
              !.depth = @ + 1]

\* (a variant of HandleResponse: the "ok" test ahead of the "not_authed" test)
HandleResponseOkFirst(r) ==
    IF r.status = 0 THEN "raise"
    ELSE IF r.status = StatusOk /\ ~r.json_valid THEN "raise"
    ELSE IF r.status = StatusOk /\ r.ok = "absent" THEN "raise"
    ELSE IF r.status = StatusOk /\ r.ok = "true" THEN "return"
    ELSE IF r.status = StatusOk /\ r.error # "" /\ r.error = "not_authed"
         THEN "exit"
    ELSE IF r.status = StatusTooManyRequests
         THEN IF r.retry_after < 0 THEN "raise" ELSE "retry"
    ELSE "none"

\* The if/elif chain on the response, and the except clause around it.
HandleResponse(r) ==
    IF r.status = 0 THEN "raise"
    ELSE IF r.status = StatusOk /\ ~r.json_valid THEN "raise"
    ELSE IF r.status = StatusOk /\ r.error # "" /\ r.error = "not_authed"
         THEN "exit"
    ELSE IF r.status = StatusOk /\ r.ok = "absent" THEN "raise"
    ELSE IF r.status = StatusOk /\ r.ok = "true" THEN "return"
    ELSE IF r.status = StatusTooManyRequests
         THEN IF r.retry_after < 0 THEN "raise" ELSE "retry"
    ELSE "none"

NoResponse == Response(-1, FALSE, "", "absent", -1)
NoResult == [kind |-> "none", response |-> NoResponse]
Body(r) == [kind |-> "body", response |-> r]

----------------------------------------------------------------------------
(* is_channel_disused *)

RECURSIVE ScanMessagesNoBreak(_, _, _)
\* (a variant of ScanMessages: the loop without its break)
ScanMessagesNoBreak(s, messages, last_message_datetime) ==
    IF messages = <<>> THEN last_message_datetime
    ELSE IF Head(messages).subtype # ""
            /\ Head(messages).subtype \in s.skip_subtypes
         THEN ScanMessagesNoBreak(s, Tail(messages), last_message_datetime)
    ELSE ScanMessagesNoBreak(s, Tail(messages),
                             FromTimestamp(Head(messages).ts))

RECURSIVE ScanMessages(_, _, _)
\* The for loop of get_last_message_timestamp: the first message whose
\* subtype is absent or not skipped sets the time and ends the loop.
ScanMessages(s, messages, last_message_datetime) ==
    IF messages = <<>> THEN last_message_datetime
    ELSE IF Head(messages).subtype # ""
            /\ Head(messages).subtype \in s.skip_subtypes
         THEN ScanMessages(s, Tail(messages), last_message_datetime)
    ELSE FromTimestamp(Head(messages).ts)

get_last_message_timestamp(s, channel_history, too_old_datetime) ==
    IF channel_history.kind = "none" THEN Epoch
    ELSE IF ~channel_history.response.has_messages THEN too_old_datetime
    ELSE LET last_message_datetime ==
                ScanMessages(s, channel_history.response.messages,
                             too_old_datetime)
         IN  IF ~DatetimeTruthy(last_message_datetime) THEN Epoch
             ELSE last_message_datetime

\* (a variant of HasMinUsers: the threshold compared with >=)
HasMinUsersGe(min_members, num_members) ==
    min_members = 0 \/ min_members >= num_members

\* min_members == 0 or min_members > num_members
HasMinUsers(min_members, num_members) ==
    min_members = 0 \/ min_members > num_members

\* is_channel_disused once the history call has returned: its locals.
is_channel_disused(s, channel, channel_history) ==
    LET last_message_datetime ==
            get_last_message_timestamp(s, channel_history,
                                       FromTimestamp(channel.created))
        last_message_is_too_old == last_message_datetime <= s.too_old_datetime
        has_min_users == HasMinUsers(s.min_members, channel.num_members)
    IN  [made |-> TRUE, channel |-> channel,
         channel_history |-> channel_history,
         last_message_datetime |-> last_message_datetime,
         last_message_is_too_old |-> last_message_is_too_old,
         has_min_users |-> has_min_users,
         disused |-> last_message_is_too_old /\ has_min_users]

NoChannel == Channel("", <<>>, 0, 0, <<>>, <<>>)

NoEval ==
    [made |-> FALSE, channel |-> NoChannel, channel_history |-> NoResult,
     last_message_datetime |-> Epoch, last_message_is_too_old |-> FALSE,
     has_min_users |-> FALSE, disused |-> FALSE]

----------------------------------------------------------------------------
(* The calls main makes *)

ListCall ==
    NewCall("conversations.list",
            [channel |-> "", text |-> [kind |-> ""]], "GET", FALSE)

HistoryCall(channel) ==
    NewCall("conversations.history",
            [channel |-> channel.id, text |-> [kind |-> ""]], "GET", FALSE)

\* send_channel_message
send_channel_message(channel_id, message) ==
    NewCall("chat.postMessage",
            [channel |-> channel_id, text |-> message], "POST", TRUE)

ArchiveCall(channel) ==
    NewCall("conversations.archive",
            [channel |-> channel.id, text |-> [kind |-> ""]], "GET", FALSE)

\* alert.format(days_inactive=...)
AlertText(s) == [kind |-> "alert", days_inactive |-> s.days_inactive]

Names(chs) == [i \in 1..Len(chs) |-> chs[i].name]

\* "Archiving %d channels: %s", prefixed "[DRY RUN] " in a dry run
AdminText(s, chs) ==
    [kind |-> "admin", dry_run |-> s.dry_run, count |-> Len(chs),
     names |-> Names(chs)]

\* (a variant of ArchivePlan: the dry-run flag not consulted)
ArchivePlanAlways(s, channel) ==
    <<send_channel_message(channel.id, AlertText(s)), ArchiveCall(channel)>>

\* (a variant of ArchivePlan: the archive request ahead of the alert)
ArchivePlanArchiveFirst(s, channel) ==
    IF ~s.dry_run
    THEN <<ArchiveCall(channel),
           send_channel_message(channel.id, AlertText(s))>>
    ELSE <<>>

\* The network calls of archive_channel, in order.
ArchivePlan(s, channel) ==
    IF ~s.dry_run
    THEN <<send_channel_message(channel.id, AlertText(s)),
           ArchiveCall(channel)>>
    ELSE <<>>

\* (a variant of ShouldArchive: the whitelist not consulted)
ShouldArchiveDisused(channel_whitelisted, channel_disused) == channel_disused

\* main's test before archiving
ShouldArchive(channel_whitelisted, channel_disused) ==
    ~channel_whitelisted /\ channel_disused

\* (a variant of Accumulate: the channel put at the front)
AccumulateFront(archived, channel) == <<channel>> \o archived

\* archived_channels.append(channel)
Accumulate(archived, channel) == Append(archived, channel)

\* The lines generate_report writes.
ReportLines(chs) == Names(chs)

----------------------------------------------------------------------------
(* The run, as a function of its state *)

\* The part of the state the program's steps rewrite.
Cur ==
    [pc |-> pc, call |-> call, channels |-> channels, idx |-> idx,
     archived_channels |-> archived_channels, evaluated |-> evaluated,
     last_eval |-> last_eval, plan |-> plan, audit |-> audit,
     report |-> report, exit_code |-> exit_code, result |-> result]

Set(m) ==
    /\ pc' = m.pc
    /\ call' = m.call
    /\ channels' = m.channels
    /\ idx' = m.idx
    /\ archived_channels' = m.archived_channels
    /\ evaluated' = m.evaluated
    /\ last_eval' = m.last_eval
    /\ plan' = m.plan
    /\ audit' = m.audit
    /\ report' = m.report
    /\ exit_code' = m.exit_code
    /\ result' = m.result

AuditLine(line, name) == [line |-> line, name |-> name]

\* An exception nothing catches: a traceback, and exit code 1.
Raise(m) == [m EXCEPT !.pc = "raised", !.exit_code = 1]

\* logger.error(...); sys.exit(1)
Exit(m) ==
    [m EXCEPT !.pc = "exit", !.exit_code = 1,
              !.audit = Append(@, AuditLine("Need to setup auth", <<>>))]

StartCall(m, p, c) == [m EXCEPT !.pc = p, !.call = c]

\* generate_report
generate_report(m, chs) ==
    [m EXCEPT !.report = [written |-> TRUE, lines |-> ReportLines(chs)]]

\* main returns
Done(m) == [m EXCEPT !.pc = "done", !.exit_code = 0]

\* The end of main, lines 247-248: send_admin_report, whose post is awaited
\* when an admin channel is configured, then generate_report.
send_admin_report(m) ==
    IF settings.admin_channel # ""
    THEN StartCall(m, "admin",
                   send_channel_message(settings.admin_channel,
                       AdminText(settings, m.archived_channels)))
    ELSE Done(generate_report(m, m.archived_channels))

\* After the admin post returned (its result is not looked at).
AdminReturn(m, v) == Done(generate_report(m, m.archived_channels))

\* The head of the loop, for the channel at index i.
NextChannel(m, i) ==
    IF i <= Len(m.channels)
    THEN StartCall([m EXCEPT !.idx = i], "history", HistoryCall(m.channels[i]))
    ELSE send_admin_report([m EXCEPT !.idx = i])

\* archive_channel up to its first network call, or to its end in a dry run
archive_channel(m, channel) ==
    LET m1 == [m EXCEPT !.audit =
                   Append(@, AuditLine("Archiving channel...", channel.name))]
        p == ArchivePlan(settings, channel)
    IN  IF p = <<>> THEN NextChannel(m1, m1.idx + 1)
        ELSE StartCall([m1 EXCEPT !.plan = Tail(p)], "archive_channel", Head(p))

\* archive_channel after one of its calls returned (no result is looked at)
ArchiveReturn(m, v) ==
    IF m.plan # <<>>
    THEN StartCall([m EXCEPT !.plan = Tail(@)], "archive_channel", Head(m.plan))
    ELSE NextChannel(
            [m EXCEPT !.audit = Append(@,
                AuditLine("Archiving channel...", m.channels[m.idx].name))],
            m.idx + 1)

\* The loop body of main from the return of the history call on.
HistoryReturn(m, v) ==
    LET channel == m.channels[m.idx]
        channel_whitelisted ==
            is_channel_whitelisted(settings, channel,
                get_whitelist_keywords(settings, whitelist_file).keywords)
        e == is_channel_disused(settings, channel, v)
        m1 == [m EXCEPT !.last_eval = e,
                        !.evaluated = Append(@,
                            [id |-> channel.id,
                             whitelisted |-> channel_whitelisted,
                             disused |-> e.disused])]
    IN  IF ShouldArchive(channel_whitelisted, e.disused)
        THEN archive_channel(
                [m1 EXCEPT !.archived_channels = Accumulate(@, channel)],
                channel)
        ELSE NextChannel(m1, m1.idx + 1)

\* get_all_channels from the return of the list call on: subscripting no
\* result raises TypeError.
ListReturn(m, v) ==
    IF v.kind = "none" THEN Raise(m)
    ELSE NextChannel([m EXCEPT !.channels = v.response.channels], 1)

\* main up to its first network call
MainStart(m) ==
    LET m1 == IF settings.dry_run
              THEN [m EXCEPT !.audit =
                       Append(@, AuditLine("THIS IS A DRY RUN", <<>>))]
              ELSE m
    IN  IF get_whitelist_keywords(settings, whitelist_file).raised
        THEN Raise(m1)
        ELSE StartCall(m1, "list", ListCall)

\* is_channel_disused run by itself
DisuseReturn(m, v) ==
    [m EXCEPT !.pc = "returned",
              !.last_eval = is_channel_disused(settings, m.channels[m.idx], v)]

\* slack_api_http run by itself
CallReturn(m, v) == [m EXCEPT !.pc = "returned"]

\* What the caller at m.pc does with the value slack_api_http returned.
Return(m, v) ==
    CASE m.pc = "list" -> ListReturn(m, v)
      [] m.pc = "history" -> HistoryReturn(m, v)
      [] m.pc = "archive_channel" -> ArchiveReturn(m, v)
      [] m.pc = "admin" -> AdminReturn(m, v)
      [] m.pc = "disuse" -> DisuseReturn(m, v)
      [] m.pc = "call" -> CallReturn(m, v)

\* One invocation of slack_api_http from its response on.
Attempt(m, r) ==
    LET o == HandleResponse(r)
        m0 == [m EXCEPT !.last_eval = NoEval]
    IN  CASE o = "exit" -> Exit(m0)
          [] o = "raise" -> Raise(m0)
          [] o = "retry" -> [m0 EXCEPT !.call = RetryCall(m0.call, r)]
          [] o = "return" -> Return([m0 EXCEPT !.result = Body(r)], Body(r))
          [] OTHER -> Return([m0 EXCEPT !.result = NoResult], NoResult)

\* 429 responses the platform is modelled to give in one run.
Budget == IF entry = "slack_api_http" THEN RecursionLimit ELSE MaxRateLimited

\* One invocation of slack_api_http at position p: it sleeps, sends, and
\* handles the response.  At the stack's limit the invocation ends in
\* RecursionError instead, which the except clauses re-raise; its request may
\* or may not have gone out.
HttpStep(p) ==
    /\ pc = p
    /\ IF call.depth >= RecursionLimit
       THEN \E sent \in BOOLEAN :
              /\ log' = IF sent THEN Append(log, Request(call)) ELSE log
              /\ UNCHANGED <<call_trace, last_response, rate_limited>>
              /\ Set(Raise(Cur))
       ELSE \E r \in Responses(call.api_endpoint, entry) :
              /\ HandleResponse(r) = "retry" => rate_limited < Budget
              /\ log' = Append(log, Request(call))
              /\ call_trace' =
                    Append(IF call.depth = 0 THEN <<>> ELSE call_trace,
                           [request |-> Request(call), waited |-> Slept(call),
                            response |-> r])
              /\ last_response' = r
              /\ rate_limited' =
                    IF r.status = StatusTooManyRequests
                    THEN rate_limited + 1 ELSE rate_limited
              /\ Set(Attempt(Cur, r))
    /\ UNCHANGED <<entry, settings, utc_offset, whitelist_file>>

----------------------------------------------------------------------------
(* Actions *)

Begin ==
    /\ pc = "start"
    /\ Set(MainStart(Cur))
    /\ UNCHANGED <<entry, settings, utc_offset, whitelist_file, call_trace,
                   last_response, log, rate_limited>>

ListChannels == HttpStep("list")

ChannelHistory == HttpStep("history")

ArchiveChannel == HttpStep("archive_channel")

AdminReport == HttpStep("admin")

DisuseHistory == HttpStep("disuse")

ApiCall == HttpStep("call")

----------------------------------------------------------------------------
(* Specifications *)

InitCommon ==
    /\ archived_channels = <<>>
    /\ evaluated = <<>>
    /\ last_eval = NoEval
    /\ plan = <<>>
    /\ call_trace = <<>>
    /\ last_response = NoResponse
    /\ result = NoResult
    /\ log = <<>>
    /\ rate_limited = 0
    /\ audit = <<>>
    /\ report = [written |-> FALSE, lines |-> <<>>]
    /\ exit_code = -1

\* After ChannelReaper(): main is about to run.
Init ==
    /\ entry = "main"
    /\ settings \in MainSettings
    /\ utc_offset = 0
    /\ whitelist_file \in WhitelistFiles
    /\ pc = "start"
    /\ call = ListCall
    /\ channels = <<>>
    /\ idx = 0
    /\ InitCommon

Next ==
    \/ Begin
    \/ ListChannels
    \/ ChannelHistory
    \/ ArchiveChannel
    \/ AdminReport

Spec == Init /\ [][Next]_vars

\* is_channel_disused(channel, too_old_datetime) is about to make its call.
InitDisuse ==
    /\ entry = "is_channel_disused"
    /\ settings \in {s \in Settings :
            s.admin_channel = "" /\ s.whitelist_keywords = <<>> /\ ~s.dry_run}
    /\ utc_offset \in {-MaxUtcOffset, 0, MaxUtcOffset}
    /\ whitelist_file = [exists |-> FALSE, lines |-> <<>>]
    /\ pc = "disuse"
    /\ \E c \in AnyChannels :
            /\ InitCommon
            /\ channels = <<c>>
            /\ idx = 1
            /\ call = HistoryCall(c)

NextDisuse == DisuseHistory

SpecDisuse == InitDisuse /\ [][NextDisuse]_vars

\* slack_api_http(api_endpoint, payload, method, as_bot=...) was just called.
InitHttp ==
    /\ entry = "slack_api_http"
    /\ settings \in {s \in Settings :
            s.admin_channel = "" /\ s.whitelist_keywords = <<>> /\ ~s.dry_run
            /\ s.min_members = 0 /\ s.too_old_datetime = 1}
    /\ utc_offset = 0
    /\ whitelist_file = [exists |-> FALSE, lines |-> <<>>]
    /\ pc = "call"
    /\ call \in {ListCall, HistoryCall(CHOOSE c \in Workspace : c.id = "C1"),
                 ArchiveCall(CHOOSE c \in Workspace : c.id = "C1"),
                 send_channel_message("C1", AlertText(settings))}
    /\ channels = <<>>
    /\ idx = 0
    /\ InitCommon

NextHttp == ApiCall

SpecHttp == InitHttp /\ [][NextHttp]_vars

----------------------------------------------------------------------------
(* Properties of is_channel_disused (SpecDisuse) *)

\* A message the scan does not skip.
Kept(m) == m.subtype = "" \/ m.subtype \notin settings.skip_subtypes

EvalMessages == last_eval.channel_history.response.messages

C3_NoHistoryMeansEpoch ==
    (/\ last_eval.made
     /\ \/ last_eval.channel_history.kind = "none"
        \/ ~last_eval.channel_history.response.has_messages
        \/ EvalMessages = <<>>)
        => /\ last_eval.last_message_datetime = Epoch
           /\ last_eval.disused <=> last_eval.has_min_users

\* C7: when the messages list holds a message that is not skipped, the
\* last-activity time is the (local) time of the first such message; the
\* skipped messages before it and whatever follows it do not matter.
C7_FirstKeptMessage ==
    (/\ last_eval.made
     /\ last_eval.channel_history.kind = "body"
     /\ last_eval.channel_history.response.has_messages
     /\ \E i \in 1..Len(EvalMessages) : Kept(EvalMessages[i]))
        => \E i \in 1..Len(EvalMessages) :
              /\ Kept(EvalMessages[i])
              /\ \A j \in 1..(i - 1) : ~Kept(EvalMessages[j])
              /\ last_eval.last_message_datetime
                    = EvalMessages[i].ts + utc_offset

\* C7, witness: a skipped message, then a kept one with another ts, in a
\* timezone off UTC.
C7_Witness ==
    /\ last_eval.made
    /\ last_eval.channel_history.kind = "body"
    /\ Len(EvalMessages) = 2
    /\ ~Kept(EvalMessages[1])
    /\ Kept(EvalMessages[2])
    /\ EvalMessages[1].ts # EvalMessages[2].ts
    /\ utc_offset # 0
    /\ last_eval.last_message_datetime = EvalMessages[2].ts + utc_offset

----------------------------------------------------------------------------
(* Properties of a run of main (Spec) *)

IsHistory(q) == q.api_endpoint = "conversations.history"
IsArchive(q) == q.api_endpoint = "conversations.archive"
IsPost(q) == q.api_endpoint = "chat.postMessage"
IsAlert(q) == IsPost(q) /\ q.payload.text.kind = "alert"
IsAdmin(q) == IsPost(q) /\ q.payload.text.kind = "admin"

InSeq(x, xs) == \E i \in 1..Len(xs) : xs[i] = x

\* archive_channel was invoked for the channel: its audit line exists.
ArchiveInvoked(c) ==
    \E i \in 1..Len(audit) :
        audit[i] = AuditLine("Archiving channel...", c.name)

\* What the two predicates returned for the channel at index i.
Decided(i) == ~evaluated[i].whitelisted /\ evaluated[i].disused

\* C1: a listed channel is archived (archive_channel invoked, channel in
\* the archived list) exactly when is_channel_whitelisted returned false and
\* is_channel_disused returned true for it; a whitelisted channel gets no
\* notification post and no archive request, disused or not.
C1_ArchivedIffDecided ==
    /\ Len(evaluated) <= Len(channels)
    /\ \A i \in 1..Len(channels) :
          LET d == i <= Len(evaluated) /\ Decided(i)
          IN  /\ InSeq(channels[i], archived_channels) <=> d
              /\ ArchiveInvoked(channels[i]) <=> d
    /\ \A i \in 1..Len(channels) :
          is_channel_whitelisted(settings, channels[i],
              get_whitelist_keywords(settings, whitelist_file).keywords)
          => \A j \in 1..Len(log) :
                (IsAlert(log[j]) \/ IsArchive(log[j]))
                    => log[j].payload.channel # channels[i].id

\* C1, witness: a finished run that archived one channel and left alone a
\* whitelisted channel found disused.
C1_Witness ==
    /\ pc = "done"
    /\ ~settings.dry_run
    /\ \E i \in 1..Len(evaluated) :
          evaluated[i].whitelisted /\ evaluated[i].disused
    /\ \E j \in 1..Len(log) : IsArchive(log[j])

\* C5, as stated: in a dry run no request goes to the message-post endpoint
\* and none to the channel-archive endpoint.
C5_DryRunNoPostNoArchive ==
    settings.dry_run
        => \A i \in 1..Len(log) : ~IsPost(log[i]) /\ ~IsArchive(log[i])

\* C5, amended: in a dry run no request goes to the channel-archive
\* endpoint and no notification goes to a listed channel; the only posts are
\* those of the admin report, marked as a dry run, to the configured admin
\* channel, after every list and history read.
C5_DryRunOnlyAdminPost ==
    settings.dry_run
        => \A i \in 1..Len(log) :
              /\ ~IsArchive(log[i])
              /\ ~IsAlert(log[i])
              /\ IsPost(log[i])
                    => /\ settings.admin_channel # ""
                       /\ log[i].payload.channel = settings.admin_channel
                       /\ log[i].payload.text.kind = "admin"
                       /\ log[i].payload.text.dry_run
                       /\ \A j \in i..Len(log) : IsPost(log[j])

\* C5, witness: a finished dry run that found a channel to archive and
\* posted the admin report.
C5_Witness ==
    /\ settings.dry_run
    /\ pc = "done"
    /\ archived_channels # <<>>
    /\ \E i \in 1..Len(log) : IsAdmin(log[i])

\* HTTP 200 with "error": "not_authed"
NotAuthed(r) == r.status = 200 /\ r.json_valid /\ r.error = "not_authed"

\* A request that raised: in transport, parsing the body, reading "ok" or
\* reading Retry-After.
Raised(r) ==
    \/ r.status = 0
    \/ r.status = 200 /\ ~r.json_valid
    \/ r.status = 200 /\ r.json_valid /\ r.error # "not_authed"
          /\ r.ok = "absent"
    \/ r.status = 429 /\ r.retry_after < 0

Stopped == pc \in {"exit", "raised"}

\* C6: a call that ends fatally (not_authed, or an exception) stops the
\* run there: the request that got the fatal response is the last one, no
\* report file exists, and no step follows; not_authed ends the process
\* with exit code 1 and its body is not returned, whatever its "ok".
C6_FatalStopsRun ==
    /\ [](NotAuthed(last_response)
            => /\ pc = "exit"
               /\ exit_code = 1
               /\ result.response # last_response)
    /\ [](Raised(last_response) => pc = "raised" /\ exit_code # 0)
    /\ []((NotAuthed(last_response) \/ Raised(last_response))
            => /\ ~report.written
               /\ log # <<>>
               /\ log[Len(log)] = Request(call))
    /\ [][~Stopped]_vars

\* C6, witness: not_authed with "ok": true answers an archive request in
\* the middle of the loop.
C6_Witness ==
    /\ pc = "exit"
    /\ NotAuthed(last_response)
    /\ last_response.ok = "true"
    /\ log # <<>>
    /\ IsArchive(log[Len(log)])
    /\ idx < Len(channels)

\* C9: the alert to a channel goes out after the channel's history fetch
\* and before its archive request; alerts and archive requests all precede
\* the admin report; the report file is written after the admin report.
C9_CallOrder ==
    /\ \A j \in 1..Len(log) :
          IsArchive(log[j])
              => \E i \in 1..(j - 1) :
                    /\ IsAlert(log[i])
                    /\ log[i].payload.channel = log[j].payload.channel
    /\ \A i \in 1..Len(log) :
          IsAlert(log[i])
              => \E h \in 1..(i - 1) :
                    /\ IsHistory(log[h])
                    /\ log[h].payload.channel = log[i].payload.channel
    /\ \A i, j \in 1..Len(log) :
          (IsAdmin(log[i]) /\ (IsAlert(log[j]) \/ IsArchive(log[j])))
              => j < i
    /\ (report.written /\ settings.admin_channel # "")
          => \E i \in 1..Len(log) : IsAdmin(log[i])

\* C9, witness: a finished run that archived two channels and sent the
\* admin report.
C9_Witness ==
    /\ pc = "done"
    /\ report.written
    /\ Len(archived_channels) = 2
    /\ \E i \in 1..Len(log) : IsAdmin(log[i])
    /\ Cardinality({i \in 1..Len(log) : IsArchive(log[i])}) >= 2

RECURSIVE DecidedChannels(_)
\* The channels among the first n for which the decision held, in order.
DecidedChannels(n) ==
    IF n = 0 THEN <<>>
    ELSE IF Decided(n) THEN Append(DecidedChannels(n - 1), channels[n])
    ELSE DecidedChannels(n - 1)

\* A response slack_api_http returns no result for.
NoResultGiven(r) ==
    \/ r.status \notin {0, 200, 429}
    \/ r.status = 200 /\ r.json_valid /\ r.error # "not_authed"
          /\ r.ok = "false"

\* C10: at the reporting step the archived list is the listed channels for
\* which the decision held, each once, in listing order; the admin report
\* and the report file name exactly those; an alert that returned no result
\* is still followed by the archive request of the same channel.
C10_ReportedAreDecided ==
    /\ pc \in {"admin", "done"}
          => /\ Len(evaluated) = Len(channels)
             /\ archived_channels = DecidedChannels(Len(channels))
    /\ pc = "admin"
          => call.payload.text.names = Names(DecidedChannels(Len(channels)))
    /\ report.written
          => report.lines = Names(DecidedChannels(Len(channels)))
    /\ (/\ log # <<>>
        /\ IsAlert(log[Len(log)])
        /\ NoResultGiven(last_response))
          => /\ pc = "archive_channel"
             /\ call = ArchiveCall(channels[idx])
             /\ InSeq(channels[idx], archived_channels)

\* C10, witness: a finished run with two channels archived, in listing
\* order, whose last archive request returned no result.
C10_Witness ==
    /\ pc = "done"
    /\ settings.admin_channel = ""
    /\ Len(archived_channels) = 2
    /\ log # <<>>
    /\ IsArchive(log[Len(log)])
    /\ NoResultGiven(last_response)
    /\ report.lines = Names(archived_channels)

\* C4, as stated: a 429 is followed by one more request, identical to the
\* one it answers (endpoint, payload, method, token), sent after a wait of
\* at least its Retry-After.
C4_RetryIsIdentical ==
    \A i \in 2..Len(call_trace) :
        /\ call_trace[i].request = call_trace[i - 1].request
        /\ call_trace[i].waited >= call_trace[i - 1].response.retry_after

----------------------------------------------------------------------------
(* Properties of one slack_api_http call (SpecHttp) *)

\* C8, as stated: a call answered by 429s that carry Retry-After ends only
\* on a response that is not a 429, after one request per 429 and one more,
\* each retry waiting the Retry-After of the 429 before it.
C8_EndsOnlyAfterNon429 ==
    (/\ pc \in {"returned", "exit", "raised"}
     /\ \A i \in 1..Len(call_trace) :
            call_trace[i].response.status = 429
                => call_trace[i].response.retry_after >= 0)
        => /\ call_trace # <<>>
           /\ call_trace[Len(call_trace)].response.status # 429
           /\ \A i \in 1..(Len(call_trace) - 1) :
                 /\ call_trace[i].response.status = 429
                 /\ call_trace[i + 1].waited
                        = call_trace[i].response.retry_after
           /\ Len(log) = Len(call_trace)

====
